---- MODULE Spec2Model ----
(***************************************************************************)
(* Lost & Found backend (src/server.py): request handlers of APIHandler    *)
(* running against one SQLite database file.                               *)
(*                                                                         *)
(* Every handler opens its own connection (get_db), so the only shared     *)
(* state is the database file.  Handlers of several server processes (or   *)
(* threads) interleave statement by statement; what one connection may do  *)
(* while another is active is decided by SQLite's file locks in its        *)
(* default rollback-journal mode (sqlite3.connect with no pragma):         *)
(*   NONE < SHARED < RESERVED < PENDING < EXCLUSIVE.                       *)
(* A connection's uncommitted writes live in its own page cache (view) and *)
(* reach the file (db) only at COMMIT, under the EXCLUSIVE lock.           *)
(***************************************************************************)
EXTENDS Integers, Sequences, FiniteSets, TLC

\* ---------------------------------------------------------------- bounds
NumClaims == 2
NumInitItems == 1
MaxNewItems == 1
MaxClock == 1
NumEmployees == 1

\* Handlers that may be serving a request at the same time.
Handlers == {1, 2}

\* Handlers of the runs that serve POST requests only.
Writers == {1, 2, 3}

ClaimIds == 1..NumClaims
EmployeeIds == 1..NumEmployees

\* ---------------------------------------------------------------- schema
NULL == 0

Status == {"Pending", "Approved", "Rejected"}

required == <<"itemName", "itemCategory", "color", "itemDescription", "dateFound", "FoundAt">>

RequiredSet == {required[k] : k \in 1..Len(required)}

NoDB == [items |-> <<>>, claims |-> <<>>, itemStatus |-> <<>>, employees |-> <<>>]

NoReq == [kind |-> "none"]

NoResp == [status |-> 0]

\* ------------------------------------------------------------ row counts
\* number of ItemStatus rows 'Claimed' of item i in store d
ClaimedRows(d, i) ==
    Cardinality({k \in 1..Len(d.itemStatus) :
                    d.itemStatus[k].itemID = i /\ d.itemStatus[k].status = "Claimed"})

\* number of claims of store d handled by employee e and Approved
ApprovedBy(cl, e) ==
    Cardinality({c \in 1..Len(cl) :
                    cl[c].handledBy = e /\ cl[c].verificationStatus = "Approved"})

\* ------------------------------------------------- path segment -> row id
Digits == <<"0", "1", "2", "3", "4", "5", "6", "7", "8", "9">>

DigitVal(ch) == (CHOOSE k \in 1..10 : Digits[k] = ch) - 1

IsDigit(ch) == \E k \in 1..10 : Digits[k] = ch

RECURSIVE DecimalValue(_, _)
DecimalValue(tok, k) ==
    IF k = 0 THEN 0 ELSE 10 * DecimalValue(tok, k - 1) + DigitVal(tok[k])

\* The claim id arrives as the text of the path segment and is bound to
\* "WHERE id = ?" on an INTEGER column: SQLite converts text that is a
\* well-formed integer literal to that integer (so '01' is 1) and leaves any
\* other text as text, which equals no integer id.
NoInt == -1

AffinityInt(tok) ==
    IF Len(tok) > 0 /\ \A k \in 1..Len(tok) : IsDigit(tok[k])
    THEN DecimalValue(tok, Len(tok))
    ELSE NoInt

\* Path segments tried: the id of every claim, an id written with a leading
\* zero, and a segment that is no number.
Tokens ==
    {<<Digits[c + 1]>> : c \in 1..NumClaims} \cup {<<"0", "1">>, <<"x">>}

\* ------------------------------------------------------------------ clock
\* datetime('now') yields the current second.  Time does not run backwards
\* past what is on file: a statement reads a second no earlier than the
\* latest stamp it can see, and no later than MaxClock.
Stamps(d) ==
    {1} \cup {d.items[i].dateUpdated : i \in 1..Len(d.items)}
        \cup {d.itemStatus[k].statusDate : k \in 1..Len(d.itemStatus)}

LatestStamp(d) == CHOOSE t \in Stamps(d) : \A u \in Stamps(d) : u <= t

Times(d) == LatestStamp(d)..MaxClock

\* ------------------------------------------------------------------ state
VARIABLES
    db,      \* the database file: the committed rows of the four tables
    pc,      \* per handler: the statement it executes next
    req,     \* per handler: the request being served
    conn,    \* per handler: its connection ("unbound", "open", "closed")
    lock,    \* per handler: the file lock its connection holds
    view,    \* per handler: the store as its open write transaction sees it
    row,     \* per handler: the value fetched by its last SELECT
    clk,     \* per handler: the clock value its UPDATE Items statement read
    pre,     \* per handler: the database file when its transaction first read it
    resp,    \* per handler: the response sent
    rival    \* per handler: the approve calls on Pending claims that were
             \* running when its own approve call on a Pending claim arrived

vars == <<db, pc, req, conn, lock, view, row, clk, pre, resp, rival>>

Procs == DOMAIN pc

\* ---------------------------------------------------------- initial store
\* The seed puts one 'Claimed' history row per item that is already claimed.
SeedHistory(its) ==
    SelectSeq([k \in 1..Len(its) |-> [itemID |-> k, status |-> "Claimed", statusDate |-> 0]],
              LAMBDA r : its[r.itemID].isClaimed)

Min(a, b) == IF a < b THEN a ELSE b

\* The seeds tried: claims 1 and 2 reference item 1, claims 3 and 4 item 2,
\* and so on up to the last item; claim c is handled by employee c modulo
\* the number of employees (or by nobody); any status.
SeedClaims ==
    {cl \in [ClaimIds -> [itemID : 1..NumInitItems, verificationStatus : Status,
                          handledBy : {NULL} \cup EmployeeIds]] :
        \A c \in ClaimIds :
            /\ cl[c].itemID = Min((c + 1) \div 2, NumInitItems)
            /\ cl[c].handledBy = c % (NumEmployees + 1)}

InitStores ==
    {[items |-> its, claims |-> cl, itemStatus |-> SeedHistory(its),
      employees |-> [e \in EmployeeIds |-> [itemsManaged |-> ApprovedBy(cl, e)]]] :
        its \in [1..NumInitItems -> [isClaimed : BOOLEAN, dateUpdated : {0}, blank : {{}}]],
        cl \in SeedClaims}

\* The store the workflow starts from is consistent: an item is claimed
\* exactly when the claims that reference it are Approved.
SeedConsistent(d) ==
    \A c \in 1..Len(d.claims) :
        d.items[d.claims[c].itemID].isClaimed <=> d.claims[c].verificationStatus = "Approved"

InitFor(H) ==
    /\ db \in {d \in InitStores : SeedConsistent(d)}
    /\ pc = [p \in H |-> "idle"]
    /\ req = [p \in H |-> NoReq]
    /\ conn = [p \in H |-> "unbound"]
    /\ lock = [p \in H |-> "NONE"]
    /\ view = [p \in H |-> NoDB]
    /\ row = [p \in H |-> NULL]
    /\ clk = [p \in H |-> 0]
    /\ pre = [p \in H |-> NoDB]
    /\ resp = [p \in H |-> NoResp]
    /\ rival = [p \in H |-> {}]

Init == InitFor(Handlers)

\* ------------------------------------------------------------ SQLite locks
\* A SHARED lock is refused while another connection holds PENDING or
\* EXCLUSIVE; RESERVED is held by at most one connection; EXCLUSIVE needs
\* every other connection to hold nothing.  EXCLUSIVE is taken and dropped
\* inside the commit step, so no state shows it.
CanShared(p) == \A q \in Procs \ {p} : lock[q] \notin {"PENDING", "EXCLUSIVE"}

CanReserved(p) == \A q \in Procs \ {p} : lock[q] \notin {"RESERVED", "PENDING", "EXCLUSIVE"}

CanExclusive(p) == \A q \in Procs \ {p} : lock[q] = "NONE"

\* --------------------------------------------------- statements of approve
\* (variant: the status test is missing from the WHERE clause)
SelectAnyClaim(d, claim_id) ==
    LET id == AffinityInt(claim_id)
    IN  IF id \in 1..Len(d.claims) THEN d.claims[id].itemID ELSE NULL

\* SELECT itemID FROM Claims WHERE id = ? AND verificationStatus = 'Pending'
SelectPendingClaim(d, claim_id) ==
    LET id == AffinityInt(claim_id)
    IN  IF id \in 1..Len(d.claims) /\ d.claims[id].verificationStatus = "Pending"
        THEN d.claims[id].itemID
        ELSE NULL

\* (variant: the WHERE clause is missing)
UpdateClaimAll(d, claim_id) ==
    [d EXCEPT !.claims = [c \in 1..Len(d.claims) |->
                            [d.claims[c] EXCEPT !.verificationStatus = "Approved"]]]

\* UPDATE Claims SET verificationStatus = 'Approved' WHERE id = ?
UpdateClaim(d, claim_id) ==
    LET id == AffinityInt(claim_id)
    IN  IF id \in 1..Len(d.claims)
        THEN [d EXCEPT !.claims[id].verificationStatus = "Approved"]
        ELSE d

\* (variant: only the timestamp is set)
UpdateItemNoFlag(d, item_id, t) ==
    IF item_id \in 1..Len(d.items)
    THEN [d EXCEPT !.items[item_id].dateUpdated = t]
    ELSE d

\* (variant: only the flag is set)
UpdateItemNoDate(d, item_id, t) ==
    IF item_id \in 1..Len(d.items)
    THEN [d EXCEPT !.items[item_id].isClaimed = TRUE]
    ELSE d

\* (variant: the UPDATE has no WHERE clause)
UpdateItemAll(d, item_id, t) ==
    [d EXCEPT !.items =
        [i \in 1..Len(d.items) |-> [d.items[i] EXCEPT !.isClaimed = TRUE, !.dateUpdated = t]]]

\* (variant: the flag is flipped)
UpdateItemToggle(d, item_id, t) ==
    IF item_id \in 1..Len(d.items)
    THEN [d EXCEPT !.items[item_id].isClaimed = ~@, !.items[item_id].dateUpdated = t]
    ELSE d

\* UPDATE Items SET isClaimed = 1, dateUpdated = datetime('now') WHERE id = ?
UpdateItem(d, item_id, t) ==
    IF item_id \in 1..Len(d.items)
    THEN [d EXCEPT !.items[item_id].isClaimed = TRUE, !.items[item_id].dateUpdated = t]
    ELSE d

\* INSERT INTO ItemStatus (itemID, status, statusDate) VALUES (?, 'Claimed', datetime('now'))
InsertItemStatus(d, item_id, t) ==
    [d EXCEPT !.itemStatus =
        Append(@, [itemID |-> item_id, status |-> "Claimed", statusDate |-> t])]

\* The transaction of p ends: its locks are dropped and its page cache is
\* gone.
EndTransaction(p) ==
    /\ lock' = [lock EXCEPT ![p] = "NONE"]
    /\ view' = [view EXCEPT ![p] = NoDB]
    /\ pre' = [pre EXCEPT ![p] = NoDB]
    /\ clk' = [clk EXCEPT ![p] = 0]

\* (variant: the except clause commits what was written so far)
RollbackKeepsWrites(p) ==
    /\ db' = IF view[p] = NoDB THEN db ELSE view[p]
    /\ EndTransaction(p)

\* conn.rollback(): the file keeps the rows it had.
Rollback(p) ==
    /\ db' = db
    /\ EndTransaction(p)

\* conn.commit() once EXCLUSIVE is granted: the transaction's rows become
\* the file's rows.
Commit(p) ==
    /\ db' = view[p]
    /\ EndTransaction(p)

\* except Exception: conn.rollback(); 500  (the connection is not closed)
ApproveExcept(p) ==
    /\ Rollback(p)
    /\ row' = [row EXCEPT ![p] = NULL]
    /\ resp' = [resp EXCEPT ![p] = [status |-> 500]]
    /\ pc' = [pc EXCEPT ![p] = "done"]

\* ----------------------------------------------------------- approve_claim
\* The SELECT takes the SHARED lock, which the deferred transaction keeps
\* until it ends; it waits (busy handler) while a committer holds PENDING.
\* No row: conn.rollback(); 404; return  (the connection is not closed).
ApproveSelect(p) ==
    /\ pc[p] = "a_select"
    /\ CanShared(p)
    /\ LET item_id == SelectPendingClaim(db, req[p].claim_id)
       IN  IF item_id = NULL
           THEN /\ Rollback(p)
                /\ row' = [row EXCEPT ![p] = NULL]
                /\ resp' = [resp EXCEPT ![p] = [status |-> 404]]
                /\ pc' = [pc EXCEPT ![p] = "done"]
           ELSE /\ lock' = [lock EXCEPT ![p] = "SHARED"]
                /\ row' = [row EXCEPT ![p] = item_id]
                /\ pre' = [pre EXCEPT ![p] = db]
                /\ pc' = [pc EXCEPT ![p] = "a_upd_claim"]
                /\ UNCHANGED <<db, view, clk, resp>>
    /\ UNCHANGED <<req, conn, rival>>

\* (variant: the connection runs in autocommit mode, each write goes to the
\* file at once)
ApproveUpdateClaimAutocommit(p) ==
    /\ pc[p] = "a_upd_claim"
    /\ CanExclusive(p)
    /\ db' = UpdateClaim(db, req[p].claim_id)
    /\ view' = [view EXCEPT ![p] = db']
    /\ lock' = [lock EXCEPT ![p] = "RESERVED"]
    /\ pc' = [pc EXCEPT ![p] = "a_upd_item"]
    /\ UNCHANGED <<req, conn, row, clk, pre, resp, rival>>

\* The first UPDATE upgrades SHARED to RESERVED.  A connection that already
\* reads inside a transaction gets SQLITE_BUSY at once when another
\* connection holds RESERVED or more (the busy handler is not invoked, since
\* waiting could deadlock): sqlite3.OperationalError, caught at line 248.
ApproveUpdateClaim(p) ==
    /\ pc[p] = "a_upd_claim"
    /\ IF CanReserved(p)
       THEN /\ lock' = [lock EXCEPT ![p] = "RESERVED"]
            /\ view' = [view EXCEPT ![p] = UpdateClaim(db, req[p].claim_id)]
            /\ pc' = [pc EXCEPT ![p] = "a_upd_item"]
            /\ UNCHANGED <<db, row, clk, pre, resp>>
       ELSE ApproveExcept(p)
    /\ UNCHANGED <<req, conn, rival>>

\* The trigger trg_Item_BeforeUpdate fires before the UPDATE of line 231.
\* Its body is in schema.sql; the approval it belongs to is described as
\* writing the claim, the item and one history row and nothing else, so the
\* trigger is taken to let the UPDATE pass and to write no row itself.
trg_Item_BeforeUpdate(d, item_id) == d

ApproveUpdateItem(p) ==
    /\ pc[p] = "a_upd_item"
    /\ \E t \in Times(view[p]) :
        /\ clk' = [clk EXCEPT ![p] = t]
        /\ view' = [view EXCEPT ![p] =
              UpdateItem(trg_Item_BeforeUpdate(@, row[p]), row[p], t)]
    /\ pc' = [pc EXCEPT ![p] = "a_insert"]
    /\ UNCHANGED <<db, req, conn, lock, row, pre, resp, rival>>

ApproveInsertStatus(p) ==
    /\ pc[p] = "a_insert"
    /\ view' = [view EXCEPT ![p] = InsertItemStatus(@, row[p], clk[p])]
    /\ pc' = [pc EXCEPT ![p] = "a_commit"]
    /\ UNCHANGED <<db, req, conn, lock, row, clk, pre, resp, rival>>

\* conn.commit(): RESERVED -> PENDING -> EXCLUSIVE; the journalled pages are
\* written to the file and every lock is dropped.  While readers hold SHARED
\* the committer keeps PENDING and retries.  Then conn.close() and the 200.
ApproveCommit(p) ==
    /\ pc[p] = "a_commit"
    /\ IF CanExclusive(p)
       THEN /\ Commit(p)
            /\ conn' = [conn EXCEPT ![p] = "closed"]
            /\ resp' = [resp EXCEPT ![p] =
                  [status |-> 200, claimID |-> req[p].claim_id, itemID |-> row[p]]]
            /\ row' = [row EXCEPT ![p] = NULL]
            /\ pc' = [pc EXCEPT ![p] = "done"]
       ELSE /\ lock[p] = "RESERVED"
            /\ lock' = [lock EXCEPT ![p] = "PENDING"]
            /\ UNCHANGED <<db, view, row, clk, pre, conn, resp, pc>>
    /\ UNCHANGED <<req, rival>>

\* ---------------------------------------------------------------- add_item
\* The parsed body: each required key is absent, or present with an empty or
\* a non-empty text.
AllText == [k \in RequiredSet |-> "text"]

\* Bodies tried: complete, the first or the last key absent.
DataInputs ==
    {AllText} \cup {[AllText EXCEPT ![k] = "absent"] : k \in {required[1], required[6]}}

\* (variant: the new row is written with isClaimed = 1)
InsertItemClaimed(d, data, t) ==
    [d EXCEPT !.items =
        Append(@, [isClaimed |-> TRUE, dateUpdated |-> t,
                   blank |-> {k \in RequiredSet : data[k] = "blank"}])]

\* (variant: registering an item also logs a history row for it)
InsertItemLogged(d, data, t) ==
    [d EXCEPT !.items =
        Append(@, [isClaimed |-> FALSE, dateUpdated |-> t,
                   blank |-> {k \in RequiredSet : data[k] = "blank"}]),
              !.itemStatus =
        Append(@, [itemID |-> Len(d.items) + 1, status |-> "Found", statusDate |-> t])]

\* INSERT INTO Items (...) VALUES (?, ?, ?, ?, ?, ?, 0, datetime('now'))
InsertItem(d, data, t) ==
    [d EXCEPT !.items =
        Append(@, [isClaimed |-> FALSE, dateUpdated |-> t,
                   blank |-> {k \in RequiredSet : data[k] = "blank"}])]

\* The INSERT opens the implicit transaction and takes SHARED then RESERVED;
\* with no read transaction open the busy handler waits for the lock.
\* item_id = cursor.lastrowid
AddItemInsert(p) ==
    /\ pc[p] = "i_insert"
    /\ CanReserved(p)
    /\ lock' = [lock EXCEPT ![p] = "RESERVED"]
    /\ pre' = [pre EXCEPT ![p] = db]
    /\ \E t \in Times(db) :
        view' = [view EXCEPT ![p] = InsertItem(db, req[p].data, t)]
    /\ row' = [row EXCEPT ![p] = Len(db.items) + 1]
    /\ pc' = [pc EXCEPT ![p] = "i_commit"]
    /\ UNCHANGED <<db, req, conn, clk, resp, rival>>

\* conn.commit(), then SELECT ... FROM Items WHERE id = ? outside any
\* transaction (the row is on file from here on), conn.close(), 201.
AddItemCommit(p) ==
    /\ pc[p] = "i_commit"
    /\ IF CanExclusive(p)
       THEN /\ Commit(p)
            /\ pc' = [pc EXCEPT ![p] = "i_reselect"]
       ELSE /\ lock[p] = "RESERVED"
            /\ lock' = [lock EXCEPT ![p] = "PENDING"]
            /\ UNCHANGED <<db, view, clk, pre, pc>>
    /\ UNCHANGED <<req, conn, row, resp, rival>>

AddItemReselect(p) ==
    /\ pc[p] = "i_reselect"
    /\ CanShared(p)
    /\ conn' = [conn EXCEPT ![p] = "closed"]
    /\ resp' = [resp EXCEPT ![p] =
          IF row[p] \in 1..Len(db.items)
          THEN [status |-> 201, itemID |-> row[p]]
          ELSE [status |-> 500]]
    /\ row' = [row EXCEPT ![p] = NULL]
    /\ pc' = [pc EXCEPT ![p] = "done"]
    /\ UNCHANGED <<db, req, lock, view, clk, pre, rival>>

\* ------------------------------------------------------------------- reads
\* A SELECT outside a transaction holds SHARED from its first step to its
\* last; nothing can be committed in between, so it reads one state of the
\* file.  It waits while a committer holds PENDING.
Unclaimed(d) == {i \in 1..Len(d.items) : ~d.items[i].isClaimed}

Claimed(d) == {i \in 1..Len(d.items) : d.items[i].isClaimed}

PendingClaims(d) ==
    {c \in 1..Len(d.claims) :
        /\ d.claims[c].verificationStatus = "Pending"
        /\ d.claims[c].itemID \in 1..Len(d.items)}

get_items(p) ==
    /\ pc[p] = "g_items"
    /\ CanShared(p)
    /\ conn' = [conn EXCEPT ![p] = "closed"]
    /\ resp' = [resp EXCEPT ![p] = [status |-> 200, items |-> Unclaimed(db)]]
    /\ pc' = [pc EXCEPT ![p] = "done"]
    /\ UNCHANGED <<db, req, lock, view, row, clk, pre, rival>>

get_claims(p) ==
    /\ pc[p] = "g_claims"
    /\ CanShared(p)
    /\ conn' = [conn EXCEPT ![p] = "closed"]
    /\ resp' = [resp EXCEPT ![p] = [status |-> 200, claims |-> PendingClaims(db)]]
    /\ pc' = [pc EXCEPT ![p] = "done"]
    /\ UNCHANGED <<db, req, lock, view, row, clk, pre, rival>>

get_employees(p) ==
    /\ pc[p] = "g_employees"
    /\ CanShared(p)
    /\ conn' = [conn EXCEPT ![p] = "closed"]
    /\ resp' = [resp EXCEPT ![p] = [status |-> 200, employees |-> db.employees]]
    /\ pc' = [pc EXCEPT ![p] = "done"]
    /\ UNCHANGED <<db, req, lock, view, row, clk, pre, rival>>

\* get_metrics runs two SELECTs, each its own read of the file.
MetricsUnclaimed(p) ==
    /\ pc[p] = "m_unclaimed"
    /\ CanShared(p)
    /\ row' = [row EXCEPT ![p] = Cardinality(Unclaimed(db))]
    /\ pc' = [pc EXCEPT ![p] = "m_claimed"]
    /\ UNCHANGED <<db, req, conn, lock, view, clk, pre, resp, rival>>

MetricsClaimed(p) ==
    /\ pc[p] = "m_claimed"
    /\ CanShared(p)
    /\ conn' = [conn EXCEPT ![p] = "closed"]
    /\ resp' = [resp EXCEPT ![p] =
          [status |-> 200,
           Unclaimed |-> [TotalItems |-> row[p]],
           Claimed |-> [TotalItems |-> Cardinality(Claimed(db)), AverageDaysUnclaimed |-> 0]]]
    /\ row' = [row EXCEPT ![p] = NULL]
    /\ pc' = [pc EXCEPT ![p] = "done"]
    /\ UNCHANGED <<db, req, lock, view, clk, pre, rival>>

\* ---------------------------------------------------------------- dispatch
do_GET(p) ==
    /\ pc[p] = "idle"
    /\ \E k \in {"items", "claims", "metrics", "employees"} :
        /\ req' = [req EXCEPT ![p] = [kind |-> "GET", path |-> k]]
        /\ pc' = [pc EXCEPT ![p] =
              CASE k = "items" -> "g_items"
                [] k = "claims" -> "g_claims"
                [] k = "metrics" -> "m_unclaimed"
                [] k = "employees" -> "g_employees"]
    /\ conn' = [conn EXCEPT ![p] = "open"]
    /\ UNCHANGED <<db, lock, view, row, clk, pre, resp, rival>>

\* The claim named by the path segment is on file with status Pending.
IsPendingClaim(d, tok) ==
    \E c \in 1..Len(d.claims) :
        c = AffinityInt(tok) /\ d.claims[c].verificationStatus = "Pending"

\* The approve calls other than p's that are running on a Pending claim.
RunningApprovals(p) ==
    {q \in Procs \ {p} :
        /\ pc[q] \in {"a_select", "a_upd_claim", "a_upd_item", "a_insert", "a_commit"}
        /\ IsPendingClaim(db, req[q].claim_id)}

\* Items the store may still take: rows on file plus inserts in flight.
AddsInFlight == Cardinality({q \in Procs : pc[q] \in {"i_insert", "i_commit"}})

\* add_item(data): if not all(k in data for k in required): 400 and return;
\* else conn = get_db()
AddItemCheck(p, data) ==
    /\ Len(db.items) + AddsInFlight < NumInitItems + MaxNewItems
    /\ req' = [req EXCEPT ![p] = [kind |-> "add_item", body |-> "json", data |-> data]]
    /\ IF \E k \in RequiredSet : data[k] = "absent"
       THEN /\ resp' = [resp EXCEPT ![p] = [status |-> 400, error |-> "Missing required fields"]]
            /\ pc' = [pc EXCEPT ![p] = "done"]
            /\ UNCHANGED conn
       ELSE /\ conn' = [conn EXCEPT ![p] = "open"]
            /\ pc' = [pc EXCEPT ![p] = "i_insert"]
            /\ UNCHANGED resp
    /\ UNCHANGED rival

\* Bodies that are not JSON: text json.loads rejects, and bytes that are not
\* UTF-8, which .decode() rejects at line 103, outside the try block.
BadBodies == {"malformed", "undecodable"}

\* .decode() fails: the exception leaves do_POST and the server closes the
\* connection with nothing sent.
\* json.loads fails: 400 'Invalid JSON' and return.  Else route on the path:
\*   approve_claim: conn = get_db(); BEGIN TRANSACTION (deferred: no lock yet)
\*   add_item: a required key is missing: 400; else conn = get_db()
do_POST(p) ==
    /\ pc[p] = "idle"
    /\ \/ \E tok \in Tokens :
            /\ req' = [req EXCEPT ![p] = [kind |-> "approve", body |-> "json", claim_id |-> tok]]
            /\ conn' = [conn EXCEPT ![p] = "open"]
            /\ pc' = [pc EXCEPT ![p] = "a_select"]
            /\ rival' = [rival EXCEPT ![p] =
                  IF IsPendingClaim(db, tok) THEN RunningApprovals(p) ELSE {}]
            /\ UNCHANGED resp
       \/ \E data \in DataInputs : AddItemCheck(p, data)
       \/ \E k \in {"approve", "add_item"}, b \in BadBodies :
            /\ req' = [req EXCEPT ![p] =
                  IF k = "approve"
                  THEN [kind |-> k, body |-> b, claim_id |-> <<"1">>]
                  ELSE [kind |-> k, body |-> b]]
            /\ resp' = [resp EXCEPT ![p] =
                  IF b = "malformed" THEN [status |-> 400, error |-> "Invalid JSON"] ELSE NoResp]
            /\ pc' = [pc EXCEPT ![p] = "done"]
            /\ UNCHANGED <<conn, rival>>
    /\ UNCHANGED <<db, lock, view, row, clk, pre>>

\* The handler returns; its locals go out of scope, and a connection that
\* was left open is finalised, which drops what its transaction still holds.
Return(p) ==
    /\ pc[p] = "done"
    /\ pc' = [pc EXCEPT ![p] = "idle"]
    /\ req' = [req EXCEPT ![p] = NoReq]
    /\ conn' = [conn EXCEPT ![p] = "unbound"]
    /\ resp' = [resp EXCEPT ![p] = NoResp]
    /\ rival' = [q \in Procs |-> IF q = p THEN {} ELSE rival[q] \ {p}]
    /\ EndTransaction(p)
    /\ UNCHANGED <<db, row>>

\* ------------------------------------------------------- storage failures
\* A statement of approve_claim raises (I/O error, disk full, lock wait
\* timed out): control goes to the except clause at line 248.
ApproveFault(p) ==
    /\ pc[p] \in {"a_select", "a_upd_claim", "a_upd_item", "a_insert", "a_commit"}
    /\ ApproveExcept(p)
    /\ UNCHANGED <<req, conn, rival>>

\* A statement of add_item raises: 500 with neither rollback nor close.
AddItemFault(p) ==
    /\ pc[p] \in {"i_insert", "i_commit", "i_reselect"}
    /\ resp' = [resp EXCEPT ![p] = [status |-> 500]]
    /\ row' = [row EXCEPT ![p] = NULL]
    /\ pc' = [pc EXCEPT ![p] = "done"]
    /\ UNCHANGED <<db, req, conn, lock, view, clk, pre, rival>>

\* A SELECT of one of the read handlers raises: 500.
ReadFault(p) ==
    /\ pc[p] \in {"g_items", "g_claims", "g_employees", "m_unclaimed", "m_claimed"}
    /\ resp' = [resp EXCEPT ![p] = [status |-> 500]]
    /\ row' = [row EXCEPT ![p] = NULL]
    /\ pc' = [pc EXCEPT ![p] = "done"]
    /\ UNCHANGED <<db, req, conn, lock, view, clk, pre, rival>>

Next ==
    \E p \in Procs :
        \/ do_GET(p)
        \/ do_POST(p)
        \/ ApproveSelect(p)
        \/ ApproveUpdateClaim(p)
        \/ ApproveUpdateItem(p)
        \/ ApproveInsertStatus(p)
        \/ ApproveCommit(p)
        \/ AddItemInsert(p)
        \/ AddItemCommit(p)
        \/ AddItemReselect(p)
        \/ get_items(p)
        \/ get_claims(p)
        \/ get_employees(p)
        \/ MetricsUnclaimed(p)
        \/ MetricsClaimed(p)
        \/ Return(p)

Spec == Init /\ [][Next]_vars

NextFault ==
    \/ Next
    \/ \E p \in Procs :
        \/ ApproveFault(p)
        \/ AddItemFault(p)
        \/ ReadFault(p)

SpecFault == Init /\ [][NextFault]_vars

\* get_db() raises in approve_claim (line 204): conn is not bound yet, so
\* 'if conn:' at line 249 raises UnboundLocalError inside the except clause;
\* the exception leaves the handler and nothing is sent.
ApproveOpenFault(p) ==
    /\ pc[p] = "idle"
    /\ \E tok \in Tokens :
        req' = [req EXCEPT ![p] = [kind |-> "approve", body |-> "json", claim_id |-> tok]]
    /\ pc' = [pc EXCEPT ![p] = "done"]
    /\ UNCHANGED <<db, conn, lock, view, row, clk, pre, resp, rival>>

\* A statement of approve_claim raises and conn.rollback() at line 250 raises
\* too: the exception leaves the handler, nothing is sent, and the
\* transaction stays as it is until the connection is finalised.
ApproveRollbackFault(p) ==
    /\ pc[p] \in {"a_select", "a_upd_claim", "a_upd_item", "a_insert", "a_commit"}
    /\ row' = [row EXCEPT ![p] = NULL]
    /\ pc' = [pc EXCEPT ![p] = "done"]
    /\ UNCHANGED <<db, req, conn, lock, view, clk, pre, resp, rival>>

NextCrash ==
    \/ NextFault
    \/ \E p \in Procs :
        \/ ApproveOpenFault(p)
        \/ ApproveRollbackFault(p)

SpecCrash == Init /\ [][NextCrash]_vars

\* Three handlers serving POST requests only: two calls and one more writer.
InitPost == InitFor(Writers)

NextPost ==
    \E p \in Procs :
        \/ do_POST(p)
        \/ ApproveSelect(p)
        \/ ApproveUpdateClaim(p)
        \/ ApproveUpdateItem(p)
        \/ ApproveInsertStatus(p)
        \/ ApproveCommit(p)
        \/ AddItemInsert(p)
        \/ AddItemCommit(p)
        \/ AddItemReselect(p)
        \/ Return(p)

SpecPost == InitPost /\ [][NextPost]_vars

\* Two handlers serving POST /api/items and the reads, with more bodies: complete,
\* or one of the six keys absent, or one of them present and empty.
OneOff(v) == {[AllText EXCEPT ![k] = v] : k \in RequiredSet}

ItemBodies == {AllText} \cup OneOff("absent") \cup OneOff("blank")

PostItem(p) ==
    /\ pc[p] = "idle"
    /\ \E data \in ItemBodies : AddItemCheck(p, data)
    /\ UNCHANGED <<db, lock, view, row, clk, pre>>

NextItems ==
    \E p \in Procs :
        \/ PostItem(p)
        \/ AddItemInsert(p)
        \/ AddItemCommit(p)
        \/ AddItemReselect(p)
        \/ do_GET(p)
        \/ get_items(p)
        \/ get_claims(p)
        \/ get_employees(p)
        \/ MetricsUnclaimed(p)
        \/ MetricsClaimed(p)
        \/ Return(p)

SpecItems == Init /\ [][NextItems]_vars

\* ================================================================= claims
ApproveOf(p) == req[p].kind = "approve" /\ req[p].body = "json"

ClaimOf(p) == AffinityInt(req[p].claim_id)

\* p's approve_claim has located its Pending claim and not yet ended.
InFlight(p) == ApproveOf(p) /\ pre[p] # NoDB

\* p's approve_claim commits in this step.
Commits(p) == pc[p] = "a_commit" /\ pc'[p] = "done"

\* Relative to the store p's approval started from, store d has none / all of
\* the three changes of that approval.
NoneApplied(p, d) ==
    /\ d.claims[ClaimOf(p)].verificationStatus = "Pending"
    /\ d.items[row[p]].isClaimed = pre[p].items[row[p]].isClaimed
    /\ ClaimedRows(d, row[p]) = ClaimedRows(pre[p], row[p])

AllApplied(p, d) ==
    /\ d.claims[ClaimOf(p)].verificationStatus = "Approved"
    /\ d.items[row[p]].isClaimed
    /\ ClaimedRows(d, row[p]) = ClaimedRows(pre[p], row[p]) + 1

\* C1: while an approval of a Pending claim is running, and when it ends by
\* commit, failure or rollback, the database file (what every reader is
\* served from and what survives a failure) has none of its three changes or
\* all three, never one or two.
C1_AllOrNothing ==
    [][\A p \in Procs :
          InFlight(p) =>
              /\ NoneApplied(p, db)
              /\ NoneApplied(p, db') \/ AllApplied(p, db')
              /\ AllApplied(p, db') => Commits(p)]_vars

\* a reader was served the item as unclaimed while the approval that claims
\* it has all three writes done but not committed
C1_Witness ==
    \E p, q \in Procs :
        /\ InFlight(p) /\ pc[p] = "a_commit"
        /\ view[p].items[row[p]].isClaimed
        /\ pc[q] = "done" /\ req[q] = [kind |-> "GET", path |-> "items"]
        /\ resp[q].status = 200 /\ row[p] \in resp[q].items

\* C2 as stated: in every committed state, for every claim, its item is
\* claimed exactly when the claim is Approved.
C2_Original ==
    \A c \in 1..Len(db.claims) :
        db.items[db.claims[c].itemID].isClaimed
            <=> db.claims[c].verificationStatus = "Approved"

\* C2 amended: in every committed state, no claim is Approved while its item
\* is unclaimed, and no item referenced by a claim is claimed unless one of
\* the claims that reference it is Approved.
C2_CrossEntity ==
    \A c \in 1..Len(db.claims) :
        LET i == db.claims[c].itemID
        IN  /\ db.claims[c].verificationStatus = "Approved" => db.items[i].isClaimed
            /\ db.items[i].isClaimed =>
                  \E c2 \in 1..Len(db.claims) :
                      /\ db.claims[c2].itemID = i
                      /\ db.claims[c2].verificationStatus = "Approved"

\* an approval has just succeeded on an item that another claim, still
\* Pending, references
C2_Witness ==
    \E p \in Procs, c \in 1..Len(db.claims) :
        /\ pc[p] = "done" /\ ApproveOf(p) /\ resp[p].status = 200
        /\ db.claims[c].itemID = resp[p].itemID
        /\ db.claims[c].verificationStatus = "Pending"
        /\ db.claims[ClaimOf(p)].verificationStatus = "Approved"

\* two approve calls on the same claim that ran at the same time have both
\* been answered
BothAnswered(p, q) ==
    /\ p \in rival[q]
    /\ pc[p] = "done" /\ pc[q] = "done"

C5_NotPendingUnchanged ==
    [][\A p \in Procs :
          (pc[p] = "a_select" /\ pc'[p] # "a_select"
              /\ ~IsPendingClaim(db, req[p].claim_id)) =>
                /\ pc'[p] = "done"
                /\ resp'[p].status = 404
                /\ db' = db
                /\ lock'[p] = "NONE"]_vars

\* an approve call was answered 404 for a claim that an earlier call of this
\* run approved
C5_Witness ==
    \E p \in Procs :
        /\ pc[p] = "done" /\ ApproveOf(p) /\ resp[p].status = 404
        /\ ClaimOf(p) \in 1..Len(db.claims)
        /\ db.claims[ClaimOf(p)].verificationStatus = "Approved"
        /\ db.items[db.claims[ClaimOf(p)].itemID].dateUpdated > 0

C7_SuccessEffect ==
    [][\A p \in Procs :
          Commits(p) =>
              LET c == ClaimOf(p)
                  i == pre[p].claims[c].itemID
              IN  /\ pre[p] = db
                  /\ db.claims[c].verificationStatus = "Pending"
                  /\ db'.claims[c].verificationStatus = "Approved"
                  /\ db'.items[i].isClaimed
                  /\ db'.items[i].dateUpdated = clk[p]
                  /\ clk[p] >= db.items[i].dateUpdated
                  /\ ClaimedRows(db', i) = ClaimedRows(db, i) + 1
                  /\ resp'[p].status = 200
                  /\ AffinityInt(resp'[p].claimID) = c
                  /\ resp'[p].itemID = i]_vars

\* an approval succeeded: claim Approved, item claimed and refreshed
C7_Witness ==
    \E p \in Procs :
        /\ pc[p] = "done" /\ ApproveOf(p) /\ resp[p].status = 200
        /\ db.claims[ClaimOf(p)].verificationStatus = "Approved"
        /\ db.items[resp[p].itemID].isClaimed
        /\ db.items[resp[p].itemID].dateUpdated > 0

C9_StatusOneWay ==
    [][/\ Len(db'.claims) = Len(db.claims)
       /\ \A c \in 1..Len(db.claims) :
            db'.claims[c].verificationStatus # db.claims[c].verificationStatus =>
                /\ db.claims[c].verificationStatus = "Pending"
                /\ db'.claims[c].verificationStatus = "Approved"]_vars

\* an approve call on a Rejected claim was answered, and the claim is still
\* Rejected
C9_Witness ==
    \E p \in Procs :
        /\ pc[p] = "done" /\ ApproveOf(p) /\ resp[p].status = 404
        /\ ClaimOf(p) \in 1..Len(db.claims)
        /\ db.claims[ClaimOf(p)].verificationStatus = "Rejected"

\* C10: no step deletes an item or clears its claimed flag, and the flag is
\* set only by the commit of an approval of a claim on that item.
C10_ClaimedMonotonic ==
    [][/\ Len(db'.items) >= Len(db.items)
       /\ \A i \in 1..Len(db.items) :
            /\ db.items[i].isClaimed => db'.items[i].isClaimed
            /\ db'.items[i].isClaimed # db.items[i].isClaimed =>
                  \E p \in Procs : Commits(p) /\ row[p] = i]_vars

\* an item registered in this run is on file and an approval of a second
\* claim on an already claimed item has succeeded
C10_Witness ==
    \E p \in Procs :
        /\ pc[p] = "done" /\ ApproveOf(p) /\ resp[p].status = 200
        /\ Len(db.items) > NumInitItems
        /\ ClaimedRows(db, resp[p].itemID) > 1

\* C11: every 'Claimed' history row added for an item comes with a change of
\* that item's claimed flag from false to true, and every such change with
\* one row: in each step the rows added for an item number one when its flag
\* turns true and none otherwise.
C11_RowPerTransition ==
    [][\A i \in 1..Len(db.items) :
          ClaimedRows(db', i) - ClaimedRows(db, i) =
              IF ~db.items[i].isClaimed /\ db'.items[i].isClaimed THEN 1 ELSE 0]_vars

\* The history rows of d are the first rows of e, unchanged and in place.
IsPrefix(d, e) ==
    /\ Len(d.itemStatus) <= Len(e.itemStatus)
    /\ \A k \in 1..Len(d.itemStatus) : e.itemStatus[k] = d.itemStatus[k]

\* C12: every step keeps every ItemStatus row on file as it is, and a step
\* that adds rows is the commit of an approval, which is answered 200.
C12_AppendOnly ==
    [][/\ IsPrefix(db, db')
       /\ db'.itemStatus # db.itemStatus =>
            \E p \in Procs : Commits(p) /\ resp'[p].status = 200]_vars

\* two approvals have succeeded one after the other and the row the first
\* one added is still on file below the row of the second
C12_Witness ==
    \E p \in Procs :
        /\ pc[p] = "done" /\ ApproveOf(p) /\ resp[p].status = 200
        /\ Len(db.itemStatus) >= 2
        /\ \A k \in 1..Len(db.itemStatus) : db.itemStatus[k].statusDate > 0

\* C13: a register-item request whose body lacks one of the six required
\* fields, or carries it empty, is answered 400, and no item with an empty
\* required field is ever on file.
C13_BlankOrAbsentRejected ==
    /\ \A p \in Procs :
          (/\ pc[p] = "done" /\ req[p].kind = "add_item" /\ req[p].body = "json"
           /\ \E k \in RequiredSet : req[p].data[k] \in {"absent", "blank"})
              => resp[p].status = 400
    /\ \A i \in 1..Len(db.items) : db.items[i].blank = {}

\* Some claim that references item i is Approved in store d.
HasApprovedClaim(d, i) ==
    \E c \in 1..Len(d.claims) :
        d.claims[c].itemID = i /\ d.claims[c].verificationStatus = "Approved"

\* C14: the commit of a register-item call adds exactly one item, unclaimed,
\* under an identifier that is positive and above every identifier on file,
\* and changes no other item; no other step adds an item; the 201 carries
\* that identifier; and every list of unclaimed items served afterwards
\* holds every item registered in this run that has no Approved claim.
C14_RegisterAddsListed ==
    [][/\ \A p \in Procs :
            (pc[p] = "i_commit" /\ pc'[p] = "i_reselect") =>
                /\ Len(db'.items) = Len(db.items) + 1
                /\ row[p] = Len(db'.items) /\ row[p] > 0
                /\ ~db'.items[row[p]].isClaimed
                /\ \A i \in 1..Len(db.items) : db'.items[i] = db.items[i]
       /\ Len(db'.items) # Len(db.items) =>
            \E p \in Procs : pc[p] = "i_commit" /\ pc'[p] = "i_reselect"
       /\ \A p \in Procs :
            (pc[p] = "i_reselect" /\ pc'[p] = "done" /\ resp'[p].status = 201) =>
                /\ resp'[p].itemID = row[p]
                /\ row[p] \in 1..Len(db.items)
                /\ ~db.items[row[p]].isClaimed
       /\ \A q \in Procs :
            (pc[q] = "g_items" /\ pc'[q] = "done" /\ resp'[q].status = 200) =>
                \A i \in (NumInitItems + 1)..Len(db.items) :
                    ~HasApprovedClaim(db, i) => i \in resp'[q].items]_vars

\* a register-item call was answered 201 and a list of unclaimed items
\* served after it holds the identifier it returned
C14_Witness ==
    \E p, q \in Procs :
        /\ pc[p] = "done" /\ req[p].kind = "add_item" /\ resp[p].status = 201
        /\ resp[p].itemID > NumInitItems
        /\ pc[q] = "done" /\ req[q] = [kind |-> "GET", path |-> "items"]
        /\ resp[q].status = 200 /\ resp[p].itemID \in resp[q].items

\* C15: a POST request, on either path, whose body is not JSON is answered
\* 400 at once: the handler opens no connection, takes no lock, and the
\* database file is as before (a Pending claim named in the path stays
\* Pending).
C15_MalformedRejected ==
    [][\A p \in Procs :
          (/\ pc[p] = "idle" /\ pc'[p] # "idle"
           /\ req'[p].kind \in {"approve", "add_item"}
           /\ req'[p].body \in BadBodies) =>
                /\ pc'[p] = "done"
                /\ resp'[p].status = 400
                /\ conn'[p] = "unbound"
                /\ lock'[p] = "NONE"
                /\ db' = db]_vars

\* C16: when a handler returns, whatever it answered, the connection it
\* opened has been closed by it, and it holds no lock and no open
\* transaction.
C16_ConnectionReleased ==
    [][\A p \in Procs :
          (pc[p] = "done" /\ pc'[p] = "idle") =>
              /\ conn[p] \in {"unbound", "closed"}
              /\ lock[p] = "NONE"
              /\ view[p] = NoDB]_vars

\* C17: every step in which a storage operation of a handler fails, the
\* opening of the connection and the rollback included, ends with that
\* handler answering 500.
C17_FailureReported ==
    [][\A p \in Procs :
          (\/ ApproveFault(p) \/ AddItemFault(p) \/ ReadFault(p)
           \/ ApproveOpenFault(p) \/ ApproveRollbackFault(p)) =>
              /\ pc'[p] = "done"
              /\ resp'[p].status = 500]_vars

\* C18: in every state of the database file, each employee's itemsManaged
\* is the number of Approved claims whose handledBy is that employee.
C18_ItemsManaged ==
    \A e \in 1..Len(db.employees) :
        db.employees[e].itemsManaged = ApprovedBy(db.claims, e)

C20_ApproveFrame ==
    [][\A p \in Procs :
          Commits(p) =>
              LET c == ClaimOf(p)
                  i == db.claims[c].itemID
                  n == Len(db.itemStatus)
              IN  /\ Len(db'.claims) = Len(db.claims)
                  /\ \A c2 \in 1..Len(db.claims) : c2 # c => db'.claims[c2] = db.claims[c2]
                  /\ db'.claims[c].itemID = i
                  /\ db'.claims[c].handledBy = db.claims[c].handledBy
                  /\ Len(db'.items) = Len(db.items)
                  /\ \A i2 \in 1..Len(db.items) : i2 # i => db'.items[i2] = db.items[i2]
                  /\ db'.items[i].blank = db.items[i].blank
                  /\ IsPrefix(db, db')
                  /\ Len(db'.itemStatus) = n + 1
                  /\ db'.itemStatus[n + 1].itemID = i
                  /\ db'.itemStatus[n + 1].status = "Claimed"
                  /\ db'.employees = db.employees]_vars

\* an approval of a claim that has a handling employee has succeeded while
\* an item registered in this run is on file: the item is still unclaimed
\* and the employee's count is what it was
C20_Witness ==
    \E p \in Procs :
        /\ pc[p] = "done" /\ ApproveOf(p) /\ resp[p].status = 200
        /\ Len(db.items) > NumInitItems
        /\ \A i \in (NumInitItems + 1)..Len(db.items) : ~db.items[i].isClaimed
        /\ db.claims[ClaimOf(p)].handledBy \in 1..Len(db.employees)
        /\ db.employees[db.claims[ClaimOf(p)].handledBy].itemsManaged = 0

====
